---- MODULE Spec2Model ----
(***************************************************************************)
(* Tanuki-Parser: dictionary trie, Viterbi segmentation with PoS           *)
(* transitions, and the recombination pass.                                *)
(*                                                                         *)
(* Strings are sequences of one-character strings.  Positions are 0-based  *)
(* as in the JavaScript source, so text[idx] of the source is text[idx+1]  *)
(* here and text.slice(a, b) is SubSeq(text, a+1, b).                      *)
(*                                                                         *)
(* Probabilities are fixed-point numbers in units of 1e-8 (1.0 is 10^8,    *)
(* 1e-8 is 1) and Math.log is tabulated in units of 1e-6 (micro-nats), so  *)
(* that scores are exact integers.                                         *)
(***************************************************************************)
EXTENDS Integers, Sequences, FiniteSets, TLC

VARIABLES
  text,              \* viterbiSegment argument: the input text
  trie,              \* viterbiSegment argument: root of the morph trie
  posMap,            \* viterbiSegment argument: morph -> [pos |-> <<tags>>]
  transitionMap,     \* viterbiSegment argument: prevPos -> (posTag -> prob)
  recombinationMap,  \* viterbiSegment argument: pos -> <<successor tags>>
  viterbiTable,      \* viterbiTable[i+1] = row of position i, in key insertion order
  idx,               \* outer loop variable of the fill
  k,                 \* 1-based cursor of the for-in loop over viterbiTable[idx]
  proposed,          \* argument lists of the updateViterbiTable calls of the last iteration
  best,              \* <<>> for null, <<state>> otherwise
  tokens,            \* the backtraced token sequence / recombineTokens argument
  i,                 \* cursor of recombineTokens
  words,             \* result array of recombineTokens
  ret,               \* how the call ended: "none", "return" or "throw"
  calls,             \* number of viterbiSegment calls started on this model
  firstWords,        \* <<>> or <<words returned by the first call>>
  morphs,            \* buildMorphTrie argument: sequence of [morph |-> ...]
  mi,                \* 0-based loop variable of buildMorphTrie
  start,             \* findMorphsFromTrie argument
  found,             \* result of findMorphsFromTrie
  dict,              \* main.js: <<>> while undefined, <<data>> once assigned
  assigned,          \* main.js: which of trie, posMap, transitionMap, recombinationMap are assigned
  output,            \* main.js: what the output element shows
  load,              \* main.js: state of the loadDictionary promise
  pc                 \* position in the program

vars == <<text, trie, posMap, transitionMap, recombinationMap, viterbiTable, idx, k,
          proposed, best, tokens, i, words, ret, calls, firstWords, morphs, mi, start,
          found, dict, assigned, output, load, pc>>

\* The variables of main.js that no step of the engine touches.
page == <<dict, assigned, output, load>>

-----------------------------------------------------------------------------
(* Bounds of the model *)

MaxLen == 3        \* longest input text
MaxMorphs == 3     \* longest morph list given to buildMorphTrie
MaxTokens == 4     \* longest token sequence given to recombineTokens alone

-----------------------------------------------------------------------------
(* Numbers *)

ProbUnit == 10^8                 \* fixed-point representation of probability 1.0
One == ProbUnit                  \* 1.0
Half == ProbUnit \div 2          \* 0.5
Quarter == ProbUnit \div 4       \* 0.25
Penalty == 1

\* Math.log on the probabilities the model uses, in micro-nats.
MathLog(p) ==
  CASE p = One -> 0
    [] p = Half -> -693147
    [] p = Quarter -> -1386294
    [] p = Penalty -> -18420681

-----------------------------------------------------------------------------
(* Generic helpers *)

Range(s) == {s[j] : j \in 1..Len(s)}

SeqsUpTo(S, n) == UNION {[1..m -> S] : m \in 0..n}

\* The subsequence of s at the indices in I, in order.
RECURSIVE Pick(_, _, _)
Pick(s, I, j) ==
  IF j > Len(s) THEN <<>>
  ELSE (IF j \in I THEN <<s[j]>> ELSE <<>>) \o Pick(s, I, j + 1)

-----------------------------------------------------------------------------
(* trie.js *)

EmptyNode == [c \in {} |-> FALSE]

\* Mutant: the node of a character is created anew even when it exists.
RECURSIVE InsertMorph_Overwrite(_, _, _)
InsertMorph_Overwrite(node, morph, j) ==
  IF j >= Len(morph) THEN node
  ELSE LET ch == morph[j + 1]
           cur == [ismorph |-> FALSE, children |-> EmptyNode]
           marked == IF j = Len(morph) - 1 THEN [cur EXCEPT !.ismorph = TRUE] ELSE cur
           child == [marked EXCEPT
                       !.children = InsertMorph_Overwrite(marked.children, morph, j + 1)]
       IN [c \in DOMAIN node \cup {ch} |-> IF c = ch THEN child ELSE node[c]]

\* The inner loop of buildMorphTrie from j (0-based) on, at the children map `node`.
RECURSIVE InsertMorph(_, _, _)
InsertMorph(node, morph, j) ==
  IF j >= Len(morph) THEN node
  ELSE LET ch == morph[j + 1]
           cur == IF ch \in DOMAIN node THEN node[ch]
                  ELSE [ismorph |-> FALSE, children |-> EmptyNode]
           marked == IF j = Len(morph) - 1 THEN [cur EXCEPT !.ismorph = TRUE] ELSE cur
           child == [marked EXCEPT !.children = InsertMorph(marked.children, morph, j + 1)]
       IN [c \in DOMAIN node \cup {ch} |-> IF c = ch THEN child ELSE node[c]]

RECURSIVE BuildFrom(_, _, _)
BuildFrom(root, ms, m) ==
  IF m >= Len(ms) THEN root
  ELSE BuildFrom(InsertMorph(root, ms[m + 1].morph, 0), ms, m + 1)

buildMorphTrie(ms) == BuildFrom(EmptyNode, ms, 0)

\* The while loop of findMorphsFromTrie.
RECURSIVE FindLoop(_, _, _, _, _)
FindLoop(node, txt, st, ix, fnd) ==
  IF ix < Len(txt) /\ txt[ix + 1] \in DOMAIN node
  THEN LET n == node[txt[ix + 1]]
           f == IF n.ismorph
                THEN Append(fnd, [morph |-> SubSeq(txt, st + 1, ix + 1), end |-> ix + 1])
                ELSE fnd
       IN FindLoop(n.children, txt, st, ix + 1, f)
  ELSE fnd

findMorphsFromTrie(tr, txt, st) == FindLoop(tr, txt, st, st, <<>>)

-----------------------------------------------------------------------------
(* viterbi.js *)

Null == <<>>

IsWhitespace(ch) == ch \in {" ", "\t", "\n"}

\* posMap after the loop of buildPosMap from m (0-based) on.
RECURSIVE PosMapFrom(_, _, _)
PosMapFrom(pm, ms, m) ==
  IF m >= Len(ms) THEN pm
  ELSE LET morph == ms[m + 1].morph
           pos == ms[m + 1].pos
           old == IF morph \in DOMAIN pm THEN pm[morph] ELSE [pos |-> <<>>]
           new == IF pos \in Range(old.pos) THEN old ELSE [pos |-> Append(old.pos, pos)]
       IN PosMapFrom([x \in DOMAIN pm \cup {morph} |-> IF x = morph THEN new ELSE pm[x]],
                     ms, m + 1)

buildPosMap(ms) == PosMapFrom([x \in {} |-> [pos |-> <<>>]], ms, 0)

\* Index in a table row of the entry keyed pos, 0 when the key is absent.
RowIndex(row, pos) ==
  IF \E j \in 1..Len(row) : row[j].pos = pos
  THEN CHOOSE j \in 1..Len(row) : row[j].pos = pos /\ \A h \in 1..(j - 1) : row[h].pos # pos
  ELSE 0

\* Mutant: an existing entry is never replaced (the score comparison is lost).
updateViterbiTable_KeepFirst(table, nextIdx, nextPos, prevState, token, addScore, lastPos, prevIdx) ==
  LET newScore == prevState.score + addScore
      row == table[nextIdx + 1]
      entry == [pos |-> nextPos,
                state |-> [score |-> newScore, backPointer |-> <<prevState>>,
                           token |-> <<token>>]]
  IN IF RowIndex(row, nextPos) = 0 THEN [table EXCEPT ![nextIdx + 1] = Append(row, entry)]
     ELSE table

\* Mutant: every proposal is stored next to the ones before it (paths are not merged).
updateViterbiTable_Accumulate(table, nextIdx, nextPos, prevState, token, addScore, lastPos, prevIdx) ==
  LET newScore == prevState.score + addScore
      entry == [pos |-> nextPos,
                state |-> [score |-> newScore, backPointer |-> <<prevState>>,
                           token |-> <<token>>]]
  IN [table EXCEPT ![nextIdx + 1] = Append(table[nextIdx + 1], entry)]

\* Mutant: a proposal of equal score replaces the entry too.
updateViterbiTable_LastWins(table, nextIdx, nextPos, prevState, token, addScore, lastPos, prevIdx) ==
  LET newScore == prevState.score + addScore
      row == table[nextIdx + 1]
      j == RowIndex(row, nextPos)
      entry == [pos |-> nextPos,
                state |-> [score |-> newScore, backPointer |-> <<prevState>>,
                           token |-> <<token>>]]
  IN IF j = 0 THEN [table EXCEPT ![nextIdx + 1] = Append(row, entry)]
     ELSE IF row[j].state.score <= newScore THEN [table EXCEPT ![nextIdx + 1][j] = entry]
     ELSE table

updateViterbiTable(table, nextIdx, nextPos, prevState, token, addScore, lastPos, prevIdx) ==
  LET newScore == prevState.score + addScore
      row == table[nextIdx + 1]
      j == RowIndex(row, nextPos)
      entry == [pos |-> nextPos,
                state |-> [score |-> newScore, backPointer |-> <<prevState>>,
                           token |-> <<token>>]]
  IN IF j = 0 THEN [table EXCEPT ![nextIdx + 1] = Append(row, entry)]
     ELSE IF row[j].state.score < newScore THEN [table EXCEPT ![nextIdx + 1][j] = entry]
     ELSE table

\* The updateViterbiTable calls of `cs`, made in order.
RECURSIVE ApplyCalls(_, _)
ApplyCalls(table, cs) ==
  IF cs = <<>> THEN table
  ELSE LET c == Head(cs)
       IN ApplyCalls(updateViterbiTable(table, c.nextIdx, c.nextPos, c.prevState, c.token,
                                        c.addScore, c.lastPos, c.prevIdx),
                     Tail(cs))

Call(nextIdx, nextPos, prevState, token, addScore, lastPos, prevIdx) ==
  [nextIdx |-> nextIdx, nextPos |-> nextPos, prevState |-> prevState, token |-> token,
   addScore |-> addScore, lastPos |-> lastPos, prevIdx |-> prevIdx]

\* Rule 1: the end of the whitespace run that starts at e.
RECURSIVE WhitespaceEnd(_, _)
WhitespaceEnd(txt, e) ==
  IF e < Len(txt) /\ IsWhitespace(txt[e + 1]) THEN WhitespaceEnd(txt, e + 1) ELSE e

\* Mutant: the state after a whitespace run carries the empty PoS.
WhitespaceCalls_ResetPos(txt, ix, prevPos, prevState) ==
  LET end == WhitespaceEnd(txt, ix)
      wsToken == [morph |-> SubSeq(txt, ix + 1, end), pos |-> "", type |-> "whitespace",
                  transProb |-> One]
  IN <<Call(end, "", prevState, wsToken, 0, "", ix)>>

WhitespaceCalls(txt, ix, prevPos, prevState) ==
  LET end == WhitespaceEnd(txt, ix)
      wsToken == [morph |-> SubSeq(txt, ix + 1, end), pos |-> "", type |-> "whitespace",
                  transProb |-> One]
  IN <<Call(end, prevPos, prevState, wsToken, 0, prevPos, ix)>>

\* Mutant: the table is consulted for the empty previous PoS too.
TransProb_NoBoundary(tm, prevPos, posTag) ==
  IF prevPos \in DOMAIN tm /\ posTag \in DOMAIN tm[prevPos] /\ tm[prevPos][posTag] # 0
  THEN tm[prevPos][posTag]
  ELSE IF prevPos # "" THEN Penalty ELSE One

\* Rule 2: the transition probability of a dictionary match.
TransProb(tm, prevPos, posTag) ==
  IF prevPos # "" /\ prevPos \in DOMAIN tm /\ posTag \in DOMAIN tm[prevPos]
     /\ tm[prevPos][posTag] # 0
  THEN tm[prevPos][posTag]
  ELSE IF prevPos # "" THEN Penalty ELSE One

PosTags(pm, morph) == IF morph \in DOMAIN pm THEN pm[morph].pos ELSE <<>>

\* Mutant: the cumulative score is passed as the addend.
RECURSIVE TagCalls_Cumulative(_, _, _, _, _, _, _)
TagCalls_Cumulative(tm, posTags, p, fm, ix, prevPos, prevState) ==
  IF p >= Len(posTags) THEN <<>>
  ELSE LET posTag == posTags[p + 1]
           transProb == TransProb(tm, prevPos, posTag)
           score == prevState.score + MathLog(transProb)
           morphObj == [morph |-> fm.morph, pos |-> posTag, type |-> "text",
                        transProb |-> transProb]
       IN <<Call(fm.end, posTag, prevState, morphObj, score, posTag, ix)>>
          \o TagCalls_Cumulative(tm, posTags, p + 1, fm, ix, prevPos, prevState)

\* The body of the loop over posTags, from p (0-based) on.
RECURSIVE TagCalls(_, _, _, _, _, _, _)
TagCalls(tm, posTags, p, fm, ix, prevPos, prevState) ==
  IF p >= Len(posTags) THEN <<>>
  ELSE LET posTag == posTags[p + 1]
           transProb == TransProb(tm, prevPos, posTag)
           score == prevState.score + MathLog(transProb)
           morphObj == [morph |-> fm.morph, pos |-> posTag, type |-> "text",
                        transProb |-> transProb]
       IN <<Call(fm.end, posTag, prevState, morphObj, score - prevState.score, posTag, ix)>>
          \o TagCalls(tm, posTags, p + 1, fm, ix, prevPos, prevState)

\* The body of the loop over foundMorphs, from f (0-based) on.
RECURSIVE MatchCalls(_, _, _, _, _, _, _)
MatchCalls(pm, tm, foundMorphs, f, ix, prevPos, prevState) ==
  IF f >= Len(foundMorphs) THEN <<>>
  ELSE TagCalls(tm, PosTags(pm, foundMorphs[f + 1].morph), 0, foundMorphs[f + 1], ix,
                prevPos, prevState)
       \o MatchCalls(pm, tm, foundMorphs, f + 1, ix, prevPos, prevState)

\* Mutant: the skip proposal targets the position it starts from.
SkipCalls_Stay(txt, ix, prevPos, prevState) ==
  LET skipToken == [morph |-> <<txt[ix + 1]>>, pos |-> "", type |-> "skipped",
                    transProb |-> Penalty]
  IN <<Call(ix, prevPos, prevState, skipToken, MathLog(Penalty), prevPos, ix)>>

\* Rule 3
SkipCalls(txt, ix, prevPos, prevState) ==
  LET skipToken == [morph |-> <<txt[ix + 1]>>, pos |-> "", type |-> "skipped",
                    transProb |-> Penalty]
  IN <<Call(ix + 1, prevPos, prevState, skipToken, MathLog(Penalty), prevPos, ix)>>

\* The selection of the best state among the entries of the last row.
RECURSIVE BestLoop(_, _, _)
BestLoop(row, j, b) ==
  IF j > Len(row) THEN b
  ELSE LET cand == row[j].state
       IN BestLoop(row, j + 1, IF b = Null \/ cand.score > b[1].score THEN <<cand>> ELSE b)

\* The backtrace loop: tokens pushed from the end state back to the start.
RECURSIVE BacktraceLoop(_, _)
BacktraceLoop(state, toks) ==
  IF state # Null /\ state[1].token # Null
  THEN BacktraceLoop(state[1].backPointer, Append(toks, state[1].token[1]))
  ELSE toks

Reverse(s) == [j \in 1..Len(s) |-> s[Len(s) + 1 - j]]

\* Mutant: the token types are not compared.
RECURSIVE MergeLoop_AnyType(_, _, _, _)
MergeLoop_AnyType(toks, ci, list, n) ==
  IF n >= Len(list) THEN FALSE
  ELSE IF ci + 1 < Len(toks) /\ toks[ci + 2].pos = list[n + 1]
       THEN TRUE
       ELSE MergeLoop_AnyType(toks, ci, list, n + 1)

\* The loop over recombinationMap[cur.pos] from n (0-based) on: TRUE when it merges.
RECURSIVE MergeLoop(_, _, _, _)
MergeLoop(toks, ci, list, n) ==
  IF n >= Len(list) THEN FALSE
  ELSE IF ci + 1 < Len(toks) /\ toks[ci + 2].pos = list[n + 1]
          /\ toks[ci + 1].type = "text" /\ toks[ci + 2].type = "text"
       THEN TRUE
       ELSE MergeLoop(toks, ci, list, n + 1)

\* One iteration of the while loop of recombineTokens.
RecombineIteration(toks, ci, result, rmap) ==
  LET cur == toks[ci + 1]
      merged == cur.pos # "" /\ cur.pos \in DOMAIN rmap /\ MergeLoop(toks, ci, rmap[cur.pos], 0)
  IN IF merged
     THEN [i |-> ci + 2, result |-> Append(result, [tokens |-> <<toks[ci + 1], toks[ci + 2]>>])]
     ELSE [i |-> ci + 1, result |-> Append(result, [tokens |-> <<toks[ci + 1]>>])]

RECURSIVE RecombineLoop(_, _, _, _)
RecombineLoop(toks, ci, result, rmap) ==
  IF ci < Len(toks)
  THEN LET r == RecombineIteration(toks, ci, result, rmap)
       IN RecombineLoop(toks, r.i, r.result, rmap)
  ELSE result

recombineTokens(toks, rmap) == RecombineLoop(toks, 0, <<>>, rmap)

-----------------------------------------------------------------------------
(* The inputs of a viterbiSegment call *)

Alphabet == {"a", "b", " "}

Tags == {"n", "v"}

\* The dictionary entries a model is drawn from, in dictionary order.
DictUniverse ==
  << [morph |-> <<"a">>, pos |-> "n"],
     [morph |-> <<"a">>, pos |-> "v"],
     [morph |-> <<"b">>, pos |-> "v"],
     [morph |-> <<"a", "b">>, pos |-> "n"],
     [morph |-> <<"a", " ">>, pos |-> "n"] >>

\* The transition entries a transition table is drawn from: a table holds the
\* first m of them, so the tables range from the empty one to one with a row for "".
TransitionUniverse ==
  << [from |-> "n", to |-> "v", prob |-> Half],
     [from |-> "v", to |-> "n", prob |-> Quarter],
     [from |-> "", to |-> "n", prob |-> Quarter] >>

TransitionTable(es) ==
  [p \in {e.from : e \in es} |->
     [t \in {e.to : e \in {x \in es : x.from = p}} |->
        (CHOOSE e \in es : e.from = p /\ e.to = t).prob]]

TransitionTables ==
  {TransitionTable(Range(SubSeq(TransitionUniverse, 1, m))) : m \in 0..Len(TransitionUniverse)}

RecombinationTables == { [t \in {} |-> <<>>], [t \in {"n"} |-> <<"v">>] }

\* Lines 35-38: a fresh table holding the start state at position 0.
\* main.js line 11 before the dictionary is loaded, and the page left untouched.
NoMessage == [message |-> "", words |-> <<>>]

PageIdle ==
  /\ dict = <<>>
  /\ assigned = {}
  /\ output = NoMessage
  /\ load = "none"

NewTable(txt) ==
  [p \in 1..(Len(txt) + 1) |->
     IF p = 1
     THEN << [pos |-> "", state |-> [score |-> 0, backPointer |-> Null, token |-> Null]] >>
     ELSE <<>>]

\* The state at the loop head of line 41, for every text and model with a
\* transition table of `tables`; the PosMap lacks at most `missing` dictionary
\* entries of the trie.
InitWith(missing, tables) ==
  /\ text \in SeqsUpTo(Alphabet, MaxLen)
  /\ \E S \in SUBSET (1..Len(DictUniverse)) :
       \E P \in SUBSET S :
         /\ Cardinality(S \ P) <= missing
         /\ trie = buildMorphTrie(Pick(DictUniverse, S, 1))
         /\ posMap = buildPosMap(Pick(DictUniverse, P, 1))
  /\ transitionMap \in tables
  /\ recombinationMap \in RecombinationTables
  /\ viterbiTable = NewTable(text)
  /\ idx = 0
  /\ k = 1
  /\ proposed = <<>>
  /\ best = Null
  /\ tokens = <<>>
  /\ i = 0
  /\ words = <<>>
  /\ ret = "none"
  /\ calls = 1
  /\ firstWords = Null
  /\ morphs = <<>>
  /\ mi = 0
  /\ start = 0
  /\ found = <<>>
  /\ PageIdle
  /\ pc = "fill"

InitModel(missing) == InitWith(missing, TransitionTables)

\* viterbiSegment takes the trie and the PosMap as separate arguments.
Init == InitModel(1)

\* main.js lines 28-30: the trie and the PosMap are built from the same dict.morphs.
InitDictionary == InitModel(0)

-----------------------------------------------------------------------------
(* viterbiSegment, one action per iteration of the loop over the states of a position *)

Filling == pc = "fill" /\ idx < Len(text) /\ k <= Len(viterbiTable[idx + 1])

Iterate(cs) ==
  /\ viterbiTable' = ApplyCalls(viterbiTable, cs)
  /\ proposed' = cs
  /\ k' = k + 1
  /\ UNCHANGED <<page, text, trie, posMap, transitionMap, recombinationMap, idx, best, tokens, i,
                 words, ret, calls, firstWords, morphs, mi, start, found, pc>>

\* Lines 46-54
ExpandWhitespace ==
  /\ Filling
  /\ IsWhitespace(text[idx + 1])
  /\ LET e == viterbiTable[idx + 1][k]
     IN Iterate(WhitespaceCalls(text, idx, e.pos, e.state))

\* Mutant: the PoS tags of the matched morphs are consumed from posMap (the tag
\* arrays are emptied in place while they are iterated).
ExpandDictionary_ConsumeTags ==
  /\ Filling
  /\ ~IsWhitespace(text[idx + 1])
  /\ LET e == viterbiTable[idx + 1][k]
         foundMorphs == findMorphsFromTrie(trie, text, idx)
         cs == MatchCalls(posMap, transitionMap, foundMorphs, 0, idx, e.pos, e.state)
     IN /\ Len(foundMorphs) > 0
        /\ viterbiTable' = ApplyCalls(viterbiTable, cs)
        /\ proposed' = cs
        /\ k' = k + 1
        /\ posMap' = [m \in DOMAIN posMap |->
                        IF \E f \in 1..Len(foundMorphs) : foundMorphs[f].morph = m
                        THEN [pos |-> <<>>] ELSE posMap[m]]
  /\ UNCHANGED <<page, text, trie, transitionMap, recombinationMap, idx, best, tokens, i,
                 words, ret, calls, firstWords, morphs, mi, start, found, pc>>

\* Lines 56-79, when the trie finds a morph (matched = true)
ExpandDictionary ==
  /\ Filling
  /\ ~IsWhitespace(text[idx + 1])
  /\ LET e == viterbiTable[idx + 1][k]
         foundMorphs == findMorphsFromTrie(trie, text, idx)
     IN /\ Len(foundMorphs) > 0
        /\ Iterate(MatchCalls(posMap, transitionMap, foundMorphs, 0, idx, e.pos, e.state))

\* Mutant: the skip is proposed whether or not a morph was found.
ExpandSkip_Always ==
  /\ Filling
  /\ ~IsWhitespace(text[idx + 1])
  /\ LET e == viterbiTable[idx + 1][k]
         foundMorphs == findMorphsFromTrie(trie, text, idx)
     IN Iterate(MatchCalls(posMap, transitionMap, foundMorphs, 0, idx, e.pos, e.state)
                \o SkipCalls(text, idx, e.pos, e.state))

\* Lines 56-58 and 81-85, when the trie finds nothing (matched = false)
ExpandSkip ==
  /\ Filling
  /\ ~IsWhitespace(text[idx + 1])
  /\ LET e == viterbiTable[idx + 1][k]
         foundMorphs == findMorphsFromTrie(trie, text, idx)
     IN /\ Len(foundMorphs) = 0
        /\ Iterate(SkipCalls(text, idx, e.pos, e.state))

\* Line 41: the for-in loop over viterbiTable[idx] is over, idx++
NextPosition ==
  /\ pc = "fill"
  /\ idx < Len(text)
  /\ k > Len(viterbiTable[idx + 1])
  /\ idx' = idx + 1
  /\ k' = 1
  /\ UNCHANGED <<page, text, trie, posMap, transitionMap, recombinationMap, viterbiTable, proposed,
                 best, tokens, i, words, ret, calls, firstWords, morphs, mi, start, found, pc>>

\* Lines 89-97
SelectBest ==
  /\ pc = "fill"
  /\ idx >= Len(text)
  /\ best' = BestLoop(viterbiTable[Len(text) + 1], 1, Null)
  /\ pc' = "backtrace"
  /\ UNCHANGED <<page, text, trie, posMap, transitionMap, recombinationMap, viterbiTable, idx, k,
                 proposed, tokens, i, words, ret, calls, firstWords, morphs, mi, start, found>>

\* Lines 99-106
Backtrace ==
  /\ pc = "backtrace"
  /\ tokens' = Reverse(BacktraceLoop(best, <<>>))
  /\ pc' = "recombine"
  /\ UNCHANGED <<page, text, trie, posMap, transitionMap, recombinationMap, viterbiTable, idx, k,
                 proposed, best, i, words, ret, calls, firstWords, morphs, mi, start, found>>

\* Lines 108-111
Recombine ==
  /\ pc = "recombine"
  /\ words' = recombineTokens(tokens, recombinationMap)
  /\ i' = Len(tokens)
  /\ ret' = "return"
  /\ pc' = "done"
  /\ UNCHANGED <<page, text, trie, posMap, transitionMap, recombinationMap, viterbiTable, idx, k,
                 proposed, best, tokens, calls, firstWords, morphs, mi, start, found>>

Next ==
  \/ ExpandWhitespace
  \/ ExpandDictionary
  \/ ExpandSkip
  \/ NextPosition
  \/ SelectBest
  \/ Backtrace
  \/ Recombine

Spec == Init /\ [][Next]_vars

SpecDictionary == InitDictionary /\ [][Next]_vars

-----------------------------------------------------------------------------
(* Two calls of viterbiSegment on the same text and model, one after the other *)

\* main.js lines 43-44: the click handler calls viterbiSegment again; the call
\* allocates a fresh table (lines 35-38).
CallAgain ==
  /\ pc = "done"
  /\ calls = 1
  /\ calls' = 2
  /\ firstWords' = <<words>>
  /\ viterbiTable' = NewTable(text)
  /\ idx' = 0
  /\ k' = 1
  /\ proposed' = <<>>
  /\ best' = Null
  /\ tokens' = <<>>
  /\ i' = 0
  /\ words' = <<>>
  /\ ret' = "none"
  /\ pc' = "fill"
  /\ UNCHANGED <<page, text, trie, posMap, transitionMap, recombinationMap, morphs, mi, start,
                 found>>

NextRepeat == Next \/ CallAgain

SpecRepeat == Init /\ [][NextRepeat]_vars

-----------------------------------------------------------------------------
(* recombineTokens alone, one action per iteration of its while loop *)

\* The tokens a sequence given to recombineTokens is drawn from.
TokenUniverse ==
  { [morph |-> <<"a">>, pos |-> "v", type |-> "text", transProb |-> One],
    [morph |-> <<"b">>, pos |-> "s", type |-> "text", transProb |-> Half],
    [morph |-> <<"a", "b">>, pos |-> "n", type |-> "text", transProb |-> Penalty],
    [morph |-> <<" ">>, pos |-> "", type |-> "whitespace", transProb |-> One],
    [morph |-> <<"b">>, pos |-> "", type |-> "skipped", transProb |-> Penalty] }

\* The rule tables: each key is absent or has one of the listed successor arrays.
RuleTables ==
  { [t \in K |-> CASE t = "v" -> vs [] t = "s" -> <<"s">> [] t = "" -> <<"s">>] :
      K \in SUBSET {"v", "s", ""}, vs \in {<<"s">>, <<"", "s">>} }

EngineIdle ==
  /\ text = <<>>
  /\ posMap = [x \in {} |-> [pos |-> <<>>]]
  /\ transitionMap = [x \in {} |-> <<>>]
  /\ viterbiTable = <<>>
  /\ idx = 0
  /\ k = 1
  /\ proposed = <<>>
  /\ best = Null
  /\ ret = "none"
  /\ calls = 0
  /\ firstWords = Null

TrieIdle ==
  /\ morphs = <<>>
  /\ mi = 0
  /\ start = 0
  /\ found = <<>>

InitRecombine ==
  /\ EngineIdle
  /\ TrieIdle
  /\ PageIdle
  /\ trie = EmptyNode
  /\ tokens \in SeqsUpTo(TokenUniverse, MaxTokens)
  /\ recombinationMap \in RuleTables
  /\ i = 0
  /\ words = <<>>
  /\ pc = "recombineLoop"

\* Lines 118-142, one iteration
RecombineStep ==
  /\ pc = "recombineLoop"
  /\ i < Len(tokens)
  /\ LET r == RecombineIteration(tokens, i, words, recombinationMap)
     IN /\ i' = r.i
        /\ words' = r.result
  /\ UNCHANGED <<page, text, trie, posMap, transitionMap, recombinationMap, viterbiTable, idx, k,
                 proposed, best, tokens, ret, calls, firstWords, morphs, mi, start, found, pc>>

\* Line 143
RecombineReturn ==
  /\ pc = "recombineLoop"
  /\ i >= Len(tokens)
  /\ pc' = "recombined"
  /\ UNCHANGED <<page, text, trie, posMap, transitionMap, recombinationMap, viterbiTable, idx, k,
                 proposed, best, tokens, i, words, ret, calls, firstWords, morphs, mi, start,
                 found>>

NextRecombine == RecombineStep \/ RecombineReturn

SpecRecombine == InitRecombine /\ [][NextRecombine]_vars

-----------------------------------------------------------------------------
(* buildMorphTrie and findMorphsFromTrie alone *)

TrieAlphabet == {"a", "b"}

\* The morphs a morph list is drawn from, the empty morph included.
MorphUniverse ==
  << <<>>, <<"a">>, <<"b">>, <<"a", "a">>, <<"a", "b">>, <<"b", "a">>, <<"b", "b">> >>

InitTrie ==
  /\ EngineIdle
  /\ PageIdle
  /\ morphs \in SeqsUpTo({[morph |-> m] : m \in Range(MorphUniverse)}, MaxMorphs)
  /\ mi = 0
  /\ trie = EmptyNode
  /\ start = 0
  /\ found = <<>>
  /\ recombinationMap = [t \in {} |-> <<>>]
  /\ tokens = <<>>
  /\ i = 0
  /\ words = <<>>
  /\ pc = "build"

\* trie.js lines 6-17, one iteration of the loop over morphs
InsertNext ==
  /\ pc = "build"
  /\ mi < Len(morphs)
  /\ trie' = InsertMorph(trie, morphs[mi + 1].morph, 0)
  /\ mi' = mi + 1
  /\ UNCHANGED <<page, text, posMap, transitionMap, recombinationMap, viterbiTable, idx, k,
                 proposed, best, tokens, i, words, ret, calls, firstWords, morphs, start,
                 found, pc>>

\* trie.js lines 18 and 23-38: the built trie is looked up in a text from a position
Lookup ==
  /\ pc = "build"
  /\ mi >= Len(morphs)
  /\ \E txt \in SeqsUpTo(TrieAlphabet, MaxLen) :
       \E st \in 0..Len(txt) :
         /\ text' = txt
         /\ start' = st
         /\ found' = findMorphsFromTrie(trie, txt, st)
  /\ pc' = "found"
  /\ UNCHANGED <<page, trie, posMap, transitionMap, recombinationMap, viterbiTable, idx, k,
                 proposed, best, tokens, i, words, ret, calls, firstWords, morphs, mi>>

NextTrie == InsertNext \/ Lookup

SpecTrie == InitTrie /\ [][NextTrie]_vars

-----------------------------------------------------------------------------
(* main.js: the dictionary load and the clicks on the segment button *)

MaxCalls == 2      \* most viterbiSegment calls made from the click handler

\* A morph whose text names a property every JavaScript object inherits:
\* posMap[morph] is then defined before buildPosMap has stored anything, and
\* posMap[morph].pos.includes throws.
InheritedKey == <<"c", "o", "n", "s", "t", "r", "u", "c", "t", "o", "r">>

PageMorphs == Pick(DictUniverse, {1, 2, 4, 5}, 1)

\* The values response.json() may deliver: null, an object without morphs, a
\* dictionary, and a dictionary with a morph named as an inherited property.
DictionaryFiles ==
  { [json |-> "null"],
    [json |-> "object", morphs |-> <<>>,
     transitions |-> TransitionTable(Range(TransitionUniverse)),
     recombination |-> [t \in {"n"} |-> <<"v">>]],
    [json |-> "object", morphs |-> <<PageMorphs>>,
     transitions |-> TransitionTable(Range(TransitionUniverse)),
     recombination |-> [t \in {"n"} |-> <<"v">>]],
    [json |-> "object", morphs |-> <<Append(PageMorphs, [morph |-> InheritedKey, pos |-> "n"])>>,
     transitions |-> TransitionTable(Range(TransitionUniverse)),
     recombination |-> [t \in {"n"} |-> <<"v">>]] }

LoadError == [message |-> "Dictionary load error", words |-> <<>>]
NotLoadedMessage == [message |-> "Dictionary not loaded", words |-> <<>>]

\* Line 38: !dict
DictFalsy == IF dict = <<>> THEN TRUE ELSE dict[1].json = "null"

\* What viterbiSegment needs from the page before it can run on any text.
Required == {"trie", "posMap", "transitionMap"}

\* Line 29 throws: dict is null or dict.morphs is undefined (morphs.length).
TrieThrows(data) == IF data.json = "null" THEN TRUE ELSE data.morphs = <<>>

\* Line 30 throws: a morph is named as an inherited property.
PosMapThrows(data) == \E m \in Range(data.morphs[1]) : m.morph = InheritedKey

\* viterbiSegment throws a TypeError on txt with the page as it is: it reads a
\* property of the undefined trie at the first character that is no whitespace, or
\* of the undefined posMap at the first morph found.
EngineThrows(txt) ==
  /\ ~(Required \subseteq assigned)
  /\ \E ix \in 0..(Len(txt) - 1) :
       /\ ~IsWhitespace(txt[ix + 1])
       /\ ("trie" \notin assigned \/ findMorphsFromTrie(trie, txt, ix) # <<>>)

InitPage ==
  /\ EngineIdle
  /\ TrieIdle
  /\ trie = EmptyNode
  /\ recombinationMap = [t \in {} |-> <<>>]
  /\ tokens = <<>>
  /\ i = 0
  /\ words = <<>>
  /\ dict = <<>>
  /\ assigned = {}
  /\ output = NoMessage
  /\ load = "pending"
  /\ pc = "idle"

\* Lines 5-9 and 33-35: the fetch fails, the response is not ok or is no JSON
LoadRejected ==
  /\ load = "pending"
  /\ pc = "idle"
  /\ load' = "rejected"
  /\ output' = LoadError
  /\ UNCHANGED <<text, trie, posMap, transitionMap, recombinationMap, viterbiTable, idx, k,
                 proposed, best, tokens, i, words, ret, calls, firstWords, morphs, mi, start,
                 found, dict, assigned, pc>>

\* Lines 27-35: the callback of then runs, up to its end or to the statement that
\* throws, and the callback of catch shows the error
DictionaryLoaded ==
  /\ load = "pending"
  /\ pc = "idle"
  /\ \E data \in DictionaryFiles :
       /\ dict' = <<data>>
       /\ IF TrieThrows(data)
          THEN /\ UNCHANGED <<trie, posMap, transitionMap, recombinationMap, assigned>>
               /\ output' = LoadError
               /\ load' = "rejected"
          ELSE IF PosMapThrows(data)
          THEN /\ trie' = buildMorphTrie(data.morphs[1])
               /\ assigned' = assigned \cup {"trie"}
               /\ UNCHANGED <<posMap, transitionMap, recombinationMap>>
               /\ output' = LoadError
               /\ load' = "rejected"
          ELSE /\ trie' = buildMorphTrie(data.morphs[1])
               /\ posMap' = buildPosMap(data.morphs[1])
               /\ transitionMap' = data.transitions
               /\ recombinationMap' = data.recombination
               /\ assigned' = {"trie", "posMap", "transitionMap", "recombinationMap"}
               /\ output' = output
               /\ load' = "fulfilled"
  /\ UNCHANGED <<text, viterbiTable, idx, k, proposed, best, tokens, i, words, ret, calls,
                 firstWords, morphs, mi, start, found, pc>>

\* Lines 38-42
ClickNotLoaded ==
  /\ pc = "idle"
  /\ DictFalsy
  /\ output' = NotLoadedMessage
  /\ UNCHANGED <<text, trie, posMap, transitionMap, recombinationMap, viterbiTable, idx, k,
                 proposed, best, tokens, i, words, ret, calls, firstWords, morphs, mi, start,
                 found, dict, assigned, load, pc>>

\* Lines 43-44: viterbiSegment is called on the text of the input element
ClickSegment ==
  /\ pc = "idle"
  /\ ~DictFalsy
  /\ calls < MaxCalls
  /\ \E txt \in SeqsUpTo(Alphabet, MaxLen) :
       /\ ~EngineThrows(txt)
       /\ text' = txt
       /\ viterbiTable' = NewTable(txt)
  /\ calls' = calls + 1
  /\ idx' = 0
  /\ k' = 1
  /\ proposed' = <<>>
  /\ best' = Null
  /\ tokens' = <<>>
  /\ i' = 0
  /\ words' = <<>>
  /\ ret' = "none"
  /\ pc' = "fill"
  /\ UNCHANGED <<page, trie, posMap, transitionMap, recombinationMap, firstWords, morphs, mi,
                 start, found>>

\* Lines 43-44: viterbiSegment is called and throws; the handler ends at line 44
ClickThrows ==
  /\ pc = "idle"
  /\ ~DictFalsy
  /\ calls < MaxCalls
  /\ \E txt \in SeqsUpTo(Alphabet, MaxLen) :
       /\ EngineThrows(txt)
       /\ text' = txt
  /\ calls' = calls + 1
  /\ ret' = "throw"
  /\ UNCHANGED <<page, trie, posMap, transitionMap, recombinationMap, viterbiTable, idx, k,
                 proposed, best, tokens, i, words, firstWords, morphs, mi, start, found, pc>>

\* Line 45: the Words are shown; the table of the call is gone
HandlerReturn ==
  /\ pc = "done"
  /\ output' = [message |-> "words", words |-> words]
  /\ viterbiTable' = <<>>
  /\ idx' = 0
  /\ k' = 1
  /\ proposed' = <<>>
  /\ best' = Null
  /\ tokens' = <<>>
  /\ i' = 0
  /\ words' = <<>>
  /\ pc' = "idle"
  /\ UNCHANGED <<text, trie, posMap, transitionMap, recombinationMap, ret, calls, firstWords,
                 morphs, mi, start, found, dict, assigned, load>>

Click == ClickNotLoaded \/ ClickSegment \/ ClickThrows

NextPage ==
  \/ LoadRejected
  \/ DictionaryLoaded
  \/ ClickNotLoaded
  \/ ClickSegment
  \/ ClickThrows
  \/ HandlerReturn
  \/ Next

SpecPage == InitPage /\ [][NextPage]_vars

-----------------------------------------------------------------------------
(* Observations used by the properties *)

N == Len(text)

\* The tokens of the returned Words, Words in output order, tokens in order inside each.
RECURSIVE Flatten(_)
Flatten(ws) == IF ws = <<>> THEN <<>> ELSE Head(ws).tokens \o Flatten(Tail(ws))

RECURSIVE Surface(_)
Surface(toks) == IF toks = <<>> THEN <<>> ELSE Head(toks).morph \o Surface(Tail(toks))

\* 0-based position in the output text of the first character of token j.
Offset(toks, j) == Len(Surface(SubSeq(toks, 1, j - 1)))

\* The maximal whitespace runs [a, b) of the text.
WhitespaceRuns ==
  { r \in (0..N) \X (0..N) :
      /\ r[1] < r[2]
      /\ \A p \in (r[1] + 1)..r[2] : IsWhitespace(text[p])
      /\ (r[1] = 0 \/ ~IsWhitespace(text[r[1]]))
      /\ (r[2] = N \/ ~IsWhitespace(text[r[2] + 1])) }

\* An iteration of the loop over the states of position idx has just run; `proposed`
\* holds its updateViterbiTable calls and Expanded is the entry it expanded.
JustExpanded == pc = "fill" /\ k > 1
Expanded == viterbiTable[idx + 1][k - 1]

-----------------------------------------------------------------------------
(* C1 *)

\* C1 (coverage): the concatenated text of all tokens of all returned Words, in
\* output order, is exactly the input text.
C1_Coverage == pc = "done" => Surface(Flatten(words)) = text

-----------------------------------------------------------------------------
(* C3 *)

\* C3 (whitespace atomicity): every maximal whitespace run of the input is, in the
\* output, exactly one token of type whitespace whose text is the whole run.
C3_WhitespaceAtomicity ==
  pc = "done" =>
    LET toks == Flatten(words)
    IN \A r \in WhitespaceRuns :
         \E j \in 1..Len(toks) :
           /\ Offset(toks, j) = r[1]
           /\ toks[j].type = "whitespace"
           /\ toks[j].morph = SubSeq(text, r[1] + 1, r[2])

-----------------------------------------------------------------------------
(* C4 *)

\* C4 (no dead end): every expansion of a populated state at idx < N proposes at
\* least one target state, at a position greater than idx, and after the fill the
\* row of position N holds at least one state.
C4_NeverDeadEnds ==
  /\ JustExpanded =>
       /\ Len(proposed) >= 1
       /\ \A j \in 1..Len(proposed) : proposed[j].nextIdx > idx
  /\ pc # "fill" => Len(viterbiTable[N + 1]) >= 1

-----------------------------------------------------------------------------
(* C5 *)

\* C5 (defensive check): when no state exists at position N for a non-empty text,
\* the call fails with SegmentationInvariantError and returns no Word sequence.
C5_FailsWithoutTerminalState ==
  (pc = "done" /\ N > 0 /\ Len(viterbiTable[N + 1]) = 0) => ret = "throw"

-----------------------------------------------------------------------------
(* C2 *)

\* The transition default policy as the specification words it.
HasPair(prevPos, t) == prevPos \in DOMAIN transitionMap /\ t \in DOMAIN transitionMap[prevPos]

PolicyProb(prevPos, t) ==
  IF prevPos = "" THEN One
  ELSE IF HasPair(prevPos, t) THEN transitionMap[prevPos][t]
  ELSE Penalty

\* End of the maximal whitespace run that contains position ix.
RunEnd(ix) == CHOOSE e \in (ix + 1)..N :
                /\ \A p \in (ix + 1)..e : IsWhitespace(text[p])
                /\ (e = N \/ ~IsWhitespace(text[e + 1]))

Step(tok, add, rest) == [toks |-> <<tok>> \o rest.toks, score |-> add + rest.score]

\* Every sequence of rule-conformant steps from state (ix, prevPos) to position N,
\* with the sum of its addends.
RECURSIVE ConformantPaths(_, _)
ConformantPaths(ix, prevPos) ==
  IF ix = N THEN {[toks |-> <<>>, score |-> 0]}
  ELSE IF IsWhitespace(text[ix + 1])
  THEN LET tok == [morph |-> SubSeq(text, ix + 1, RunEnd(ix)), pos |-> "",
                   type |-> "whitespace", transProb |-> One]
       IN {Step(tok, 0, r) : r \in ConformantPaths(RunEnd(ix), prevPos)}
  ELSE LET ms == Range(findMorphsFromTrie(trie, text, ix))
       IN IF ms = {}
          THEN LET tok == [morph |-> <<text[ix + 1]>>, pos |-> "", type |-> "skipped",
                           transProb |-> Penalty]
               IN {Step(tok, MathLog(Penalty), r) : r \in ConformantPaths(ix + 1, prevPos)}
          ELSE UNION { UNION { {Step([morph |-> m.morph, pos |-> t, type |-> "text",
                                        transProb |-> PolicyProb(prevPos, t)],
                                       MathLog(PolicyProb(prevPos, t)), r)
                                  : r \in ConformantPaths(m.end, t)}
                               : t \in Range(PosTags(posMap, m.morph)) }
                       : m \in ms }

\* C2 (optimality): when some rule-conformant step sequence reaches position N, the
\* backtraced token sequence is one of them and its cumulative score is the maximum
\* of their scores.
C2_Optimality ==
  pc = "done" =>
    LET P == ConformantPaths(0, "")
    IN P # {} =>
         /\ best # Null
         /\ [toks |-> tokens, score |-> best[1].score] \in P
         /\ \A p \in P : p.score <= best[1].score

RECURSIVE OnChain(_, _)
OnChain(st, from) ==
  from # Null /\ (from[1] = st \/ OnChain(st, from[1].backPointer))

\* The winning path passes through a state that was not the best one of its position.
C2_Witness ==
  /\ pc = "done"
  /\ \E p \in 1..(N + 1) :
       \E a, b \in 1..Len(viterbiTable[p]) :
         /\ viterbiTable[p][a].state.score > viterbiTable[p][b].state.score
         /\ OnChain(viterbiTable[p][b].state, best)
         /\ ~OnChain(viterbiTable[p][a].state, best)

-----------------------------------------------------------------------------
(* C6 *)

\* C6 (transition default policy): every dictionary-match proposal from prevPos to
\* tag t records on its token the probability 1.0 when prevPos is empty, the table
\* value when the pair is present and 1e-8 when it is absent; the probability is
\* never 0 and the score addend is its logarithm.
C6_TransitionPolicy ==
  JustExpanded =>
    \A j \in 1..Len(proposed) :
      LET c == proposed[j]
      IN c.token.type = "text" =>
           /\ c.token.pos = c.nextPos
           /\ c.token.transProb = PolicyProb(Expanded.pos, c.nextPos)
           /\ c.token.transProb > 0
           /\ c.addScore = MathLog(c.token.transProb)

\* One expansion proposed a match over a pair present in the table and a match over
\* an absent pair.
C6_Witness ==
  /\ JustExpanded
  /\ Expanded.pos # ""
  /\ \E j \in 1..Len(proposed) :
       /\ proposed[j].token.type = "text"
       /\ HasPair(Expanded.pos, proposed[j].nextPos)
       /\ proposed[j].token.transProb = transitionMap[Expanded.pos][proposed[j].nextPos]
  /\ \E j \in 1..Len(proposed) :
       /\ proposed[j].token.type = "text"
       /\ ~HasPair(Expanded.pos, proposed[j].nextPos)
       /\ proposed[j].token.transProb = Penalty

-----------------------------------------------------------------------------
(* C9 *)

\* Number of entries of the table from row p (1-based) on.
RECURSIVE EntriesFrom(_)
EntriesFrom(p) == IF p > N + 1 THEN 0 ELSE Len(viterbiTable[p]) + EntriesFrom(p + 1)

LiveStates == EntriesFrom(1)

ModelTags == UNION {Range(posMap[m].pos) : m \in DOMAIN posMap}

OneEntryPerKey ==
  \A p \in 1..(N + 1) :
    \A a, b \in 1..Len(viterbiTable[p]) :
      viterbiTable[p][a].pos = viterbiTable[p][b].pos => a = b

\* The tags of the model in the widest sense: those of the PosMap, of the
\* transition table and of the recombination table.
AllModelTags ==
  (ModelTags
   \cup DOMAIN transitionMap \cup UNION {DOMAIN transitionMap[p] : p \in DOMAIN transitionMap}
   \cup DOMAIN recombinationMap
   \cup UNION {Range(recombinationMap[p]) : p \in DOMAIN recombinationMap}) \ {""}

\* C9 as stated (state bound): at most one entry per (position, PoS) and at most
\* (N+1) x (number of distinct PoS tags of the model) live states.
C9_StateBoundAsStated ==
  /\ OneEntryPerKey
  /\ LiveStates <= (N + 1) * Cardinality(AllModelTags)

\* C9 amended (state bound): at most one entry per (position, PoS) and at most
\* (N+1) x (number of distinct PoS tags of the model + 1) live states, the empty
\* tag of the start state counted.
C9_StateBound ==
  /\ OneEntryPerKey
  /\ LiveStates <= (N + 1) * (Cardinality(ModelTags) + 1)

\* An empty dictionary: every position holds the state of the empty tag.
C9_Witness ==
  /\ pc = "done"
  /\ N > 0
  /\ ModelTags = {}
  /\ LiveStates = N + 1

-----------------------------------------------------------------------------
(* C7 *)

\* 0-based cursor at which the j-th emitted Word starts.
WordCursor(j) == Len(Flatten(SubSeq(words, 1, j - 1)))

\* The merge condition at cursor c as the specification words it.
Mergeable(c) ==
  /\ tokens[c + 1].type = "text"
  /\ tokens[c + 1].pos \in DOMAIN recombinationMap
  /\ c + 2 <= Len(tokens)
  /\ tokens[c + 2].type = "text"
  /\ tokens[c + 2].pos \in Range(recombinationMap[tokens[c + 1].pos])

\* C7 (recombiner): the Words emitted so far flatten to the tokens before the
\* cursor, every Word has 1 or 2 tokens, a Word has 2 tokens exactly when the merge
\* condition holds at its cursor, and the pass ends with the cursor at the end.
C7_Recombiner ==
  pc \in {"recombineLoop", "recombined"} =>
    /\ i <= Len(tokens)
    /\ Flatten(words) = SubSeq(tokens, 1, i)
    /\ \A j \in 1..Len(words) :
         /\ Len(words[j].tokens) \in {1, 2}
         /\ Len(words[j].tokens) = 2 <=> Mergeable(WordCursor(j))
    /\ pc = "recombined" => i = Len(tokens)

\* A chain of three mergeable tokens came out as a two-token Word and a one-token Word.
C7_Witness ==
  /\ pc = "recombined"
  /\ Len(tokens) = 3
  /\ Mergeable(0)
  /\ Mergeable(1)
  /\ Len(words) = 2
  /\ Len(words[1].tokens) = 2

-----------------------------------------------------------------------------
(* C8 *)

\* The distinct morphs inserted so far.
Inserted == {morphs[j].morph : j \in 1..mi}

\* The matches the specification asks for, from length l on: one per distinct
\* non-empty morph that is a prefix of the text from start, by increasing length.
RECURSIVE ExpectedFrom(_)
ExpectedFrom(l) ==
  IF start + l > Len(text) THEN <<>>
  ELSE (IF SubSeq(text, start + 1, start + l) \in Inserted
        THEN <<[morph |-> SubSeq(text, start + 1, start + l), end |-> start + l]>>
        ELSE <<>>) \o ExpectedFrom(l + 1)

\* The distinct morphs inserted so far, once each, in the order of MorphUniverse.
Canonical ==
  [j \in 1..Len(Pick(MorphUniverse, {h \in 1..Len(MorphUniverse) : MorphUniverse[h] \in Inserted}, 1)) |->
     [morph |-> Pick(MorphUniverse, {h \in 1..Len(MorphUniverse) : MorphUniverse[h] \in Inserted}, 1)[j]]]

\* C8 (trie lookup): the trie depends only on the set of morphs inserted, neither
\* on their order nor on duplicates, and the lookup returns exactly one entry
\* (m, start+|m|) per distinct non-empty morph m that is a prefix of the text from
\* start, by increasing length.
C8_TrieLookup ==
  pc \in {"build", "found"} =>
    /\ trie = buildMorphTrie(Canonical)
    /\ pc = "found" => found = ExpectedFrom(1)

\* A list with a duplicate and a longer morph inserted before its prefix, whose
\* lookup returns two matches.
C8_Witness ==
  /\ pc = "found"
  /\ Len(found) >= 2
  /\ \E a, b \in 1..Len(morphs) : a < b /\ morphs[a] = morphs[b]
  /\ \E a, b \in 1..Len(morphs) :
       /\ a < b
       /\ Len(morphs[a].morph) > Len(morphs[b].morph)
       /\ morphs[b].morph = SubSeq(morphs[a].morph, 1, Len(morphs[b].morph))
       /\ Len(morphs[b].morph) > 0

-----------------------------------------------------------------------------
(* C10 *)

\* C10 (read-only model, determinism): no step of a call changes the trie, the
\* PosMap, the transition table or the recombination table, and the second call on
\* the same text and model returns the Word sequence the first call returned.
C10_ReadOnlyDeterministic ==
  [][ /\ trie' = trie
      /\ posMap' = posMap
      /\ transitionMap' = transitionMap
      /\ recombinationMap' = recombinationMap
      /\ (pc' = "done" /\ calls' = 2) => (ret' = "return" /\ <<words'>> = firstWords') ]_vars

\* The second call returned, with dictionary tokens merged into a Word.
C10_Witness ==
  /\ pc = "done"
  /\ calls = 2
  /\ \E j \in 1..Len(words) : Len(words[j].tokens) = 2

-----------------------------------------------------------------------------
(* C11 *)

\* Transition entries with a transition from a tag to itself, so that one path can
\* use the same entry several times.
SelfTransitionUniverse ==
  << [from |-> "n", to |-> "n", prob |-> Quarter],
     [from |-> "n", to |-> "v", prob |-> Half] >>

SelfTransitionTables ==
  {TransitionTable(Range(SubSeq(SelfTransitionUniverse, 1, m))) :
     m \in 1..Len(SelfTransitionUniverse)}

InitMonotone == InitWith(0, TransitionTables \cup SelfTransitionTables)

SpecMonotone == InitMonotone /\ [][Next]_vars

\* The cumulative score of the token path toks from token h on under the transition
\* table tm, prevPos being the tag carried to token h: the addends of lines 52, 73
\* and 84.
RECURSIVE PathScore(_, _, _, _)
PathScore(toks, h, prevPos, tm) ==
  IF h > Len(toks) THEN 0
  ELSE LET t == toks[h]
       IN IF t.type = "text"
          THEN MathLog(TransProb(tm, prevPos, t.pos)) + PathScore(toks, h + 1, t.pos, tm)
          ELSE IF t.type = "skipped"
          THEN MathLog(Penalty) + PathScore(toks, h + 1, prevPos, tm)
          ELSE PathScore(toks, h + 1, prevPos, tm)

\* How many steps of the token path toks, from token h on, are scored with the
\* transition (from, to).
RECURSIVE UseCount(_, _, _, _, _)
UseCount(toks, h, prevPos, from, to) ==
  IF h > Len(toks) THEN 0
  ELSE LET t == toks[h]
       IN IF t.type = "text"
          THEN (IF prevPos = from /\ t.pos = to THEN 1 ELSE 0)
               + UseCount(toks, h + 1, t.pos, from, to)
          ELSE UseCount(toks, h + 1, prevPos, from, to)

\* The transition table tm with the probability of (r.from, r.to) set to r.prob.
Raised(tm, r) ==
  [p \in DOMAIN tm \cup {r.from} |->
     [t \in (IF p \in DOMAIN tm THEN DOMAIN tm[p] ELSE {})
            \cup (IF p = r.from THEN {r.to} ELSE {}) |->
        IF p = r.from /\ t = r.to THEN r.prob ELSE tm[p][t]]]

\* The increases of one transition probability used on the winning path.
Raises ==
  { r \in [from : Tags, to : Tags, prob : {Quarter, Half, One}] :
      /\ UseCount(tokens, 1, "", r.from, r.to) > 0
      /\ r.prob > TransProb(transitionMap, r.from, r.to) }

\* Score of the winning path minus score of the path toks, under the table tm.
Gap(toks, tm) == PathScore(tokens, 1, "", tm) - PathScore(toks, 1, "", tm)

\* Under the increase r the gap to the competing path toks does not decrease and
\* the winning path still scores at least as much as toks.
KeepsLead(toks, r) ==
  /\ Gap(toks, Raised(transitionMap, r)) >= Gap(toks, transitionMap)
  /\ Gap(toks, Raised(transitionMap, r)) >= 0

\* C11 as stated (monotonicity): when one transition probability used on the
\* winning path is increased, the score of the winning path minus the score of any
\* other complete path does not decrease, and the winning path is still a
\* maximum-score path.
C11_MonotonicityAsStated ==
  (pc = "done" /\ best # Null) =>
    \A r \in Raises :
      \A c \in ConformantPaths(0, "") : KeepsLead(c.toks, r)

\* C11 amended (monotonicity): when one transition probability used on the winning
\* path is increased, the score of the winning path minus the score of any other
\* complete path that uses that transition no more often than the winning path does
\* not decrease, and the winning path still scores at least as much as each of them.
C11_Monotonicity ==
  (pc = "done" /\ best # Null) =>
    \A r \in Raises :
      \A c \in ConformantPaths(0, "") :
        UseCount(c.toks, 1, "", r.from, r.to) <= UseCount(tokens, 1, "", r.from, r.to)
          => KeepsLead(c.toks, r)

\* An increase widens the gap to a competing path that uses the transition less
\* often, while another competing path uses it more often than the winning path.
C11_Witness ==
  /\ pc = "done"
  /\ best # Null
  /\ \E r \in Raises :
       /\ \E c \in ConformantPaths(0, "") :
            /\ UseCount(c.toks, 1, "", r.from, r.to) < UseCount(tokens, 1, "", r.from, r.to)
            /\ Gap(c.toks, Raised(transitionMap, r)) > Gap(c.toks, transitionMap)
       /\ \E c \in ConformantPaths(0, "") :
            UseCount(c.toks, 1, "", r.from, r.to) > UseCount(tokens, 1, "", r.from, r.to)

-----------------------------------------------------------------------------
(* C12 *)

\* The calls of the last iteration are the ones of the whitespace rule alone.
FiredWhitespace ==
  /\ Len(proposed) = 1
  /\ proposed[1].token.type = "whitespace"
  /\ proposed[1].nextPos = Expanded.pos

\* The calls of the last iteration are dictionary matches of the morphs found at idx.
FiredDictionary ==
  \A j \in 1..Len(proposed) :
    /\ proposed[j].token.type = "text"
    /\ \E f \in Range(findMorphsFromTrie(trie, text, idx)) :
         f.morph = proposed[j].token.morph /\ f.end = proposed[j].nextIdx

\* The last iteration made the skip proposal alone.
FiredSkip ==
  /\ Len(proposed) = 1
  /\ proposed[1].token.type = "skipped"
  /\ proposed[1].token.morph = <<text[idx + 1]>>
  /\ proposed[1].nextIdx = idx + 1
  /\ proposed[1].nextPos = Expanded.pos
  /\ proposed[1].prevState = Expanded.state
  /\ proposed[1].addScore = MathLog(Penalty)

SkipProposed == \E j \in 1..Len(proposed) : proposed[j].token.type = "skipped"

-----------------------------------------------------------------------------
(* C13 *)

\* The state at index j of a row is the first one of the maximal score of the row.
FirstMaximum(row, j) ==
  /\ \A h \in 1..Len(row) : row[h].state.score <= row[j].state.score
  /\ \A h \in 1..(j - 1) : row[h].state.score < row[j].state.score

\* A call of the last iteration whose score equals the score of the entry of its
\* target, which is the entry of another proposal.
TieDiscarded(c) ==
  LET row == viterbiTable[c.nextIdx + 1]
      j == RowIndex(row, c.nextPos)
  IN /\ j # 0
     /\ row[j].state.score = c.prevState.score + c.addScore
     /\ row[j].state.backPointer # <<c.prevState>>

\* C13 (merge/update policy): every step keeps every entry of the table in place
\* and changes it only to a state of strictly greater score, so that the stored
\* score never decreases and on an equal score the first-proposed token and
\* predecessor stay; the winner is the first state of position N whose score is
\* the maximum of the row.
C13_MergePolicy ==
  [][ /\ \A p \in 1..(N + 1) :
           \A j \in 1..Len(viterbiTable[p]) :
             /\ j <= Len(viterbiTable'[p])
             /\ viterbiTable'[p][j].pos = viterbiTable[p][j].pos
             /\ viterbiTable'[p][j].state.score >= viterbiTable[p][j].state.score
             /\ viterbiTable'[p][j].state # viterbiTable[p][j].state
                  => viterbiTable'[p][j].state.score > viterbiTable[p][j].state.score
      /\ (pc = "fill" /\ pc' = "backtrace") =>
           LET row == viterbiTable[N + 1]
           IN IF row = <<>> THEN best' = Null
              ELSE \E j \in 1..Len(row) : best' = <<row[j].state>> /\ FirstMaximum(row, j) ]_vars

\* The last iteration of the fill made a proposal that tied with a stored entry and
\* was dropped, and the winner is the first of two states of equal score at N.
C13_Witness ==
  /\ pc = "done"
  /\ \E j \in 1..Len(proposed) : TieDiscarded(proposed[j])
  /\ \E a, b \in 1..Len(viterbiTable[N + 1]) :
       /\ a < b
       /\ viterbiTable[N + 1][a].state.score = viterbiTable[N + 1][b].state.score
       /\ best = <<viterbiTable[N + 1][a].state>>

-----------------------------------------------------------------------------
(* C14 *)

\* The tokens on the back-pointer chain of a state, in text order.
Chain(state) == Reverse(BacktraceLoop(<<state>>, <<>>))

\* The tag of the nearest text token among the first h tokens, empty when none is.
RECURSIVE NearestTag(_, _)
NearestTag(toks, h) ==
  IF h = 0 THEN ""
  ELSE IF toks[h].type = "text" THEN toks[h].pos
  ELSE NearestTag(toks, h - 1)

\* C14 (PoS pass-through): whitespace and skip proposals target the PoS of the state
\* they expand; every state is keyed by the tag of the nearest text token of its
\* path, and every text token of a path records the probability of the transition
\* from the tag of the nearest text token before it, whatever whitespace or skipped
\* tokens lie between, and 1.0 as boundary only when no text token precedes it.
C14_PosPassThrough ==
  /\ JustExpanded =>
       \A j \in 1..Len(proposed) :
         proposed[j].token.type \in {"whitespace", "skipped"} =>
           proposed[j].nextPos = Expanded.pos
  /\ \A p \in 1..(N + 1) :
       \A j \in 1..Len(viterbiTable[p]) :
         LET toks == Chain(viterbiTable[p][j].state)
         IN /\ viterbiTable[p][j].pos = NearestTag(toks, Len(toks))
            /\ \A h \in 1..Len(toks) :
                 toks[h].type = "text" =>
                   toks[h].transProb = PolicyProb(NearestTag(toks, h - 1), toks[h].pos)

\* The output holds a text token right after a whitespace or skipped token, scored
\* with a transition of the table from the tag of an earlier text token.
C14_Witness ==
  /\ pc = "done"
  /\ \E h \in 2..Len(tokens) :
       /\ tokens[h].type = "text"
       /\ tokens[h - 1].type \in {"whitespace", "skipped"}
       /\ HasPair(NearestTag(tokens, h - 1), tokens[h].pos)
       /\ tokens[h].transProb = transitionMap[NearestTag(tokens, h - 1)][tokens[h].pos]
       /\ tokens[h].transProb # One

-----------------------------------------------------------------------------
(* C15 *)

\* The entry e of the row of position p - 1 is the start state, or its token is the
\* text span from an earlier position q up to p - 1 and its predecessor is a state
\* of the row of q.
WellSpanned(p, e) ==
  IF e.state.token = Null
  THEN p = 1 /\ e.state.backPointer = Null
  ELSE LET q == (p - 1) - Len(e.state.token[1].morph)
       IN /\ 0 <= q
          /\ q < p - 1
          /\ e.state.token[1].morph = SubSeq(text, q + 1, p - 1)
          /\ \E h \in 1..Len(viterbiTable[q + 1]) :
               <<viterbiTable[q + 1][h].state>> = e.state.backPointer

AllWellSpanned ==
  \A p \in 1..(N + 1) :
    \A j \in 1..Len(viterbiTable[p]) : WellSpanned(p, viterbiTable[p][j])

\* The calls of the last iteration start at idx and target a later position.
ProposedForward ==
  JustExpanded =>
    \A j \in 1..Len(proposed) : proposed[j].prevIdx = idx /\ proposed[j].nextIdx > idx

\* C15 (forward-only updates): every proposal of the expansion of a state at idx
\* targets a position greater than idx, no step writes a row of a position up to
\* idx, and every stored state has its predecessor in the row of a strictly smaller
\* position q and as token exactly the text span from q to its own position.
C15_ForwardOnly ==
  [][ /\ ProposedForward'
      /\ \A p \in 1..(idx + 1) : viterbiTable'[p] = viterbiTable[p]
      /\ AllWellSpanned' ]_vars

\* The output holds a token of several characters after another token: a state
\* whose predecessor lies two positions back and is not the start state.
C15_Witness ==
  /\ pc = "done"
  /\ \E h \in 2..Len(tokens) : Len(tokens[h].morph) >= 2

-----------------------------------------------------------------------------
(* C17 *)

\* The sum of the logarithms of the probabilities recorded on the tokens.
RECURSIVE SumLogs(_)
SumLogs(toks) ==
  IF toks = <<>> THEN 0 ELSE MathLog(Head(toks).transProb) + SumLogs(Tail(toks))

\* The probability the token of a state records, given the state it follows.
RecordedProb(tok, prev) ==
  CASE tok.type = "whitespace" -> One
    [] tok.type = "skipped" -> Penalty
    [] tok.type = "text" -> PolicyProb(NearestTag(Chain(prev), Len(Chain(prev))), tok.pos)

StartEntry == [pos |-> "", state |-> [score |-> 0, backPointer |-> Null, token |-> Null]]

\* C17 (score consistency): the row of position 0 holds the start state alone, of
\* score 0 and without token; every other stored state has a token and a
\* predecessor, its token records 1.0 (whitespace), 1e-8 (skipped) or the policy
\* probability (text) and its score is the score of the predecessor plus the
\* logarithm of that probability; the score of the winner is the sum of the
\* logarithms of the probabilities recorded on the returned tokens.
C17_ScoreConsistency ==
  /\ viterbiTable[1] = <<StartEntry>>
  /\ \A p \in 2..(N + 1) :
       \A j \in 1..Len(viterbiTable[p]) :
         LET st == viterbiTable[p][j].state
         IN /\ st.token # Null
            /\ st.backPointer # Null
            /\ st.token[1].transProb = RecordedProb(st.token[1], st.backPointer[1])
            /\ st.score = st.backPointer[1].score + MathLog(st.token[1].transProb)
  /\ (pc = "done" /\ best # Null) => best[1].score = SumLogs(tokens)

\* The winner's path holds a text token scored with a table probability below 1.0
\* after a state of negative score.
C17_Witness ==
  /\ pc = "done"
  /\ best # Null
  /\ \E h \in 3..Len(tokens) :
       /\ tokens[h].type = "text"
       /\ tokens[h].transProb \in {Half, Quarter}
       /\ SumLogs(SubSeq(tokens, 1, h - 1)) < 0

-----------------------------------------------------------------------------
(* C16 *)

\* C16 (UI initialisation ordering): in every interleaving of the dictionary load
\* with the clicks, a click calls viterbiSegment only when trie, posMap and
\* transitionMap have all been assigned; any other click shows "Dictionary not
\* loaded" and calls nothing.
C16_CallsOnlyWhenBuilt ==
  [][ Click =>
        IF Required \subseteq assigned
        THEN calls' = calls + 1
        ELSE calls' = calls /\ output' = NotLoadedMessage ]_vars

====
